---- MODULE Spec2Model ----
(***************************************************************************)
(* Model of the quiz-chain orchestrator of app/solver.py                   *)
(* (QuizSolver.solve_quiz_chain, _compute_answer, _submit_answer) together *)
(* with the parts of app/scraper.py, app/utils.py and app/config.py it     *)
(* relies on, and of the /solve endpoint of app/main.py in front of it.    *)
(*                                                                         *)
(* One chain is one coroutine.  Its position is pc; the points where pc    *)
(* rests are the awaits of the coroutine (browser start, page scrape,      *)
(* POST, sleep, browser close) and the branch points between them.         *)
(* Python values are tagged records so that None, numbers and text can be  *)
(* compared with each other.                                               *)
(*                                                                         *)
(* Spec        a chain started by a direct call of solve_quiz_chain        *)
(* SpecLive    Spec with fair scheduling of the coroutine                  *)
(* SpecResolve _compute_answer called on its own, twice on one snapshot    *)
(* SpecSubmit  _submit_answer called on its own, for each MAX_RETRIES      *)
(* SpecMain    a POST /solve request, through validation, the handler and  *)
(*             the chain, to the response                                  *)
(* SpecAnalyze analyze_data_file called on its own, one file and question  *)
(***************************************************************************)
EXTENDS Integers, Sequences, FiniteSets, TLC

\* ------------------------------------------------------------------ bounds
\* wall-clock budget of a chain, in clock ticks (config QUIZ_TIMEOUT, scaled)
QUIZ_TIMEOUT == 2

\* config MAX_RETRIES (default)
MAX_RETRIES == 3

\* longest time a single awaited operation may take, in ticks
MaxStep == 1

\* config RETRY_DELAY (default), in seconds
RETRY_DELAY == 1

\* config SECRET
SECRET == "super-secret-string-change-me"

\* ------------------------------------------------------------ python values
None == [tag |-> "none"]

Num(n) == [tag |-> "num", val |-> n]

\* a str, as the sequence of its characters
Text(s) == [tag |-> "text", val |-> s]

\* Python truthiness of an answer value (solver.py:111 `if answer:`)
Truthy(a) ==
    CASE a.tag = "none" -> FALSE
      [] a.tag = "num"  -> a.val # 0
      [] a.tag = "text" -> a.val # <<>>
      [] OTHER          -> TRUE

Last(s) == s[Len(s)]

Min(a, b) == IF a < b THEN a ELSE b

RECURSIVE SumSeq(_)
SumSeq(s) == IF s = <<>> THEN 0 ELSE s[1] + SumSeq(Tail(s))

\* --------------------------------------------------------------- the world
\* A URL or an email address is the sequence of its parts, so that what the
\* validators of main.py look at (the scheme, the '@') can be looked at.
\* quiz page URLs the server may link to; NoUrl is None / the empty string
URLS == {<<"https://", "A">>, <<"http://", "B">>}

NoUrl == <<>>

SubmitEndpoint == <<"https://", "S">>

NoEmail == <<>>

\* ------------------------------------------------------------ page snapshots
\* page_data as returned by QuizScraper.scrape_quiz_page, reduced to what the
\* resolver reads.  json_data: kind "none" (None / empty), "dict" (a JSON
\* object) or "list" (a JSON array; has_answer / has_solution then say that
\* the array holds the string "answer" / "solution").  base64_data: the
\* decoded blob, by the JSON value extract_json_from_text finds in it (same
\* kinds), its numeric tokens (numbers) and those of them that follow the key
\* "value" (values).  files: the file links, in page order.  table: the
\* inline table sum when the text asks for a "sum of" and the markup holds a
\* table.  numbers: the numeric tokens of text_content.  labels: per label
\* answer / solution / result, the first text the pattern of that label
\* captures in text_content, or None.
NoJson == [kind |-> "none", has_answer |-> FALSE, answer |-> None,
           has_solution |-> FALSE, solution |-> None]

NoBase64 == [present |-> FALSE, kind |-> "none", has_answer |-> FALSE,
             answer |-> None, values |-> <<>>, numbers |-> <<>>]

\* what re.findall captured first for a label: the characters of the match
Match(chars) == [tag |-> "match", chars |-> chars]

NoLabels == [answer |-> None, solution |-> None, result |-> None]

BlankPage ==
    [submission_url |-> SubmitEndpoint, json_data |-> NoJson,
     base64_data |-> NoBase64, files |-> <<>>, table |-> None,
     numbers |-> <<>>, labels |-> NoLabels]

PageJson ==
    [BlankPage EXCEPT !.json_data =
        [kind |-> "dict", has_answer |-> TRUE, answer |-> Num(7),
         has_solution |-> FALSE, solution |-> None]]

PageJsonList ==
    [BlankPage EXCEPT !.json_data =
        [kind |-> "list", has_answer |-> TRUE, answer |-> None,
         has_solution |-> FALSE, solution |-> None]]

PageText ==
    [BlankPage EXCEPT !.numbers = <<2, 3>>,
                      !.labels = [NoLabels EXCEPT !.answer = Match(<<"9">>)]]

\* no submission URL found on the page; the labelled answer is the number 0
PageZeroLabel ==
    [BlankPage EXCEPT !.numbers = <<5>>,
                      !.labels = [NoLabels EXCEPT !.answer = Match(<<"0">>)],
                      !.submission_url = NoUrl]

\* what the server may serve for a quiz URL
Pages ==
    {PageJson, PageJsonList, PageText, PageZeroLabel, BlankPage}

\* snapshots a direct call of _compute_answer is given: every combination of
\* what each strategy may find on a page
JsonOptions ==
    {NoJson, PageJson.json_data, PageJsonList.json_data,
     [kind |-> "dict", has_answer |-> TRUE, answer |-> None,
      has_solution |-> FALSE, solution |-> None],
     [kind |-> "dict", has_answer |-> FALSE, answer |-> None,
      has_solution |-> TRUE, solution |-> Num(8)],
     [kind |-> "dict", has_answer |-> TRUE, answer |-> Num(7),
      has_solution |-> TRUE, solution |-> Num(8)]}

Base64Options ==
    {NoBase64,
     [NoBase64 EXCEPT !.present = TRUE],
     [NoBase64 EXCEPT !.present = TRUE, !.kind = "dict",
                      !.has_answer = TRUE, !.answer = Num(5)],
     [NoBase64 EXCEPT !.present = TRUE, !.kind = "list",
                      !.has_answer = TRUE],
     [NoBase64 EXCEPT !.present = TRUE, !.numbers = <<1, -1>>],
     [NoBase64 EXCEPT !.present = TRUE, !.values = <<4>>,
                      !.numbers = <<4, 2>>]}

FileOptions == {<<>>, <<"f1", "f2">>}

TableOptions == {None, Num(11)}

NumberOptions == {<<>>, <<2, 3>>, <<2, -2>>}

LabelOptions ==
    {NoLabels,
     [NoLabels EXCEPT !.answer = Match(<<"0">>)],
     [NoLabels EXCEPT !.answer = Match(<<"1", "9">>),
                      !.solution = Match(<<"8">>)],
     [NoLabels EXCEPT !.answer = Match(<<"x">>), !.result = Match(<<"7">>)],
     [NoLabels EXCEPT !.solution = Match(<<"8">>),
                      !.result = Match(<<"7">>)],
     [NoLabels EXCEPT !.result = Match(<<"7", "x">>)]}

Snapshots ==
    {[BlankPage EXCEPT !.json_data = j, !.base64_data = b, !.files = f,
                       !.table = t, !.numbers = n, !.labels = l] :
        j \in JsonOptions, b \in Base64Options, f \in FileOptions,
        t \in TableOptions, n \in NumberOptions, l \in LabelOptions}

\* what one download_file + analyze_data_file of a linked file may come to:
\* an exception, None, or a value
FileOutcomes == {[tag |-> "fail"], None, Num(4), Num(0)}

\* the outcomes of the downloads one call of _compute_answer may see, per link
Downloads(files) == [1..Len(files) -> FileOutcomes]

\* ---------------------------------------------------------------- resolver
\* what one strategy of _compute_answer comes to: a return (hit), an
\* exception (raised), or neither (the code goes on to the next strategy)
Hit(v, src) == [hit |-> TRUE, raised |-> FALSE, value |-> v, source |-> src]

Miss == [hit |-> FALSE, raised |-> FALSE, value |-> None, source |-> "none"]

Raised(src) ==
    [hit |-> FALSE, raised |-> TRUE, value |-> None, source |-> src]

\* a text, by its numeric tokens and those of them that follow the key
\* "value"
Tokens(values, numbers) == [values |-> values, numbers |-> numbers]

\* utils.py:114-143: with a hint, the sum of the numbers that follow the
\* hinted key if there are any; otherwise, and without a hint, the sum of
\* all numeric tokens; None when the text holds no numeric token
sum_values_in_text(text, column_hint) ==
    IF column_hint = "value" /\ text.values # <<>>
    THEN Num(SumSeq(text.values))
    ELSE IF text.numbers # <<>> THEN Num(SumSeq(text.numbers))
    ELSE None

\* Strategy 1 (solver.py:154-161): `"answer" in json_data` is a key test on
\* a dict and a membership test on a list; json_data["answer"] on a list
\* raises TypeError
Strategy1_MutSolutionFirst(jd) ==
    IF jd.kind = "none" THEN Miss
    ELSE IF jd.has_solution
         THEN IF jd.kind = "list" THEN Raised("json")
              ELSE Hit(jd.solution, "json")
    ELSE IF jd.has_answer
         THEN IF jd.kind = "list" THEN Raised("json")
              ELSE Hit(jd.answer, "json")
    ELSE Miss

Strategy1(jd) ==
    IF jd.kind = "none" THEN Miss
    ELSE IF jd.has_answer
         THEN IF jd.kind = "list" THEN Raised("json")
              ELSE Hit(jd.answer, "json")
    ELSE IF jd.has_solution
         THEN IF jd.kind = "list" THEN Raised("json")
              ELSE Hit(jd.solution, "json")
    ELSE Miss

\* Strategy 2 (solver.py:163-175): the decoded payload's JSON answer, else
\* the sum sum_values_in_text(decoded, "value") finds; a sum of 0 is returned
Strategy2(b64) ==
    IF ~b64.present THEN Miss
    ELSE IF b64.kind # "none" /\ b64.has_answer
         THEN IF b64.kind = "list" THEN Raised("base64")
              ELSE Hit(b64.answer, "base64")
    ELSE IF sum_values_in_text(Tokens(b64.values, b64.numbers), "value")
                # None
         THEN Hit(sum_values_in_text(Tokens(b64.values, b64.numbers),
                                     "value"), "base64")
    ELSE Miss

\* Strategy 3 (solver.py:177-205): the first file, in link order, that yields
\* a value; a file whose download or analysis raises, or yields None, is
\* passed over.  dl[i] is what the i-th file came to.
RECURSIVE analyze_files_MutStopAtFail(_, _)
analyze_files_MutStopAtFail(dl, i) ==
    IF i > Len(dl) THEN Miss
    ELSE IF dl[i].tag = "fail" THEN Miss
    ELSE IF dl[i].tag = "none" THEN analyze_files_MutStopAtFail(dl, i + 1)
    ELSE Hit(dl[i], "file")

RECURSIVE analyze_files(_, _)
analyze_files(dl, i) ==
    IF i > Len(dl) THEN Miss
    ELSE IF dl[i].tag \in {"fail", "none"} THEN analyze_files(dl, i + 1)
    ELSE Hit(dl[i], "file")

\* the number of files Strategy 3 downloads: up to the first that yields
RECURSIVE files_downloaded(_, _)
files_downloaded(dl, i) ==
    IF i > Len(dl) THEN Len(dl)
    ELSE IF dl[i].tag \in {"fail", "none"} THEN files_downloaded(dl, i + 1)
    ELSE i

\* the temporary files a call leaves on disk, by the position of their link,
\* when it tried the first n links (solver.py:185-205): create_temp_file
\* makes the file before the download; os.remove runs after an analysis that
\* returned (192-195, 199-202), and the handler of line 203 removes nothing
temp_files_left(dl, n) == {i \in 1..n : dl[i].tag = "fail"}

\* Strategy 4 (solver.py:207-239): the inline table
Strategy4(table) == IF table # None THEN Hit(table, "table") ELSE Miss

\* solver.py:241-246: the sum of all numbers of the text, first attempt only
Fallback_MutZeroOk(numbers, retry) ==
    IF ~retry /\ sum_values_in_text(Tokens(<<>>, numbers), "") # None
    THEN Hit(sum_values_in_text(Tokens(<<>>, numbers), ""), "sum")
    ELSE Miss

Fallback(numbers, retry) ==
    IF /\ ~retry
       /\ sum_values_in_text(Tokens(<<>>, numbers), "") # None
       /\ sum_values_in_text(Tokens(<<>>, numbers), "") # Num(0)
    THEN Hit(sum_values_in_text(Tokens(<<>>, numbers), ""), "sum")
    ELSE Miss

\* the decimal digits, in order
Digits == <<"0", "1", "2", "3", "4", "5", "6", "7", "8", "9">>

IsDigit(c) == \E i \in 1..Len(Digits) : Digits[i] = c

DigitValue(c) == (CHOOSE i \in 1..Len(Digits) : Digits[i] = c) - 1

\* the number a sequence of digits writes
RECURSIVE Decimal(_)
Decimal(chars) ==
    IF chars = <<>> THEN 0
    ELSE 10 * Decimal(SubSeq(chars, 1, Len(chars) - 1))
         + DigitValue(chars[Len(chars)])

\* solver.py:261-266: float(matches[0]), or matches[0] itself when float
\* raises ValueError; the numbers written here are runs of digits
Coerce(m) ==
    IF m.chars # <<>> /\ \A i \in 1..Len(m.chars) : IsDigit(m.chars[i])
    THEN Num(Decimal(m.chars))
    ELSE Text(m.chars)

Strategy5_MutResultFirst(labels, retry) ==
    IF ~retry THEN Miss
    ELSE IF labels.result # None THEN Hit(Coerce(labels.result), "label")
    ELSE IF labels.solution # None
         THEN Hit(Coerce(labels.solution), "label")
    ELSE IF labels.answer # None THEN Hit(Coerce(labels.answer), "label")
    ELSE Miss

\* Strategy 5 (solver.py:248-266): the labelled answer, retry only; the
\* patterns are tried in the order answer, solution, result
Strategy5(labels, retry) ==
    IF ~retry THEN Miss
    ELSE IF labels.answer # None THEN Hit(Coerce(labels.answer), "label")
    ELSE IF labels.solution # None
         THEN Hit(Coerce(labels.solution), "label")
    ELSE IF labels.result # None THEN Hit(Coerce(labels.result), "label")
    ELSE Miss

\* one call of QuizSolver._compute_answer(page_data, retry) that sees the
\* downloads dl: the strategy that returned or raised, its value, and the
\* number of files downloaded
resolution(page, dl, retry) ==
    LET s1 == Strategy1(page.json_data)
        s2 == Strategy2(page.base64_data)
        s3 == analyze_files(dl, 1)
        s4 == Strategy4(page.table)
        sf == Fallback(page.numbers, retry)
        s5 == Strategy5(page.labels, retry)
        early == IF s1.hit \/ s1.raised THEN s1 ELSE s2
        late  == IF s3.hit THEN s3
                 ELSE IF s4.hit THEN s4
                 ELSE IF sf.hit THEN sf
                 ELSE s5
    IN  IF early.hit \/ early.raised
        THEN early @@ [downloads |-> 0]
        ELSE late @@ [downloads |-> files_downloaded(dl, 1)]

\* _compute_answer raises: indexing a JSON array with the key "answer"
compute_raises(page) == resolution(page, <<>>, FALSE).raised

\* QuizSolver._compute_answer(page_data, retry): the value returned
_compute_answer(page, dl, retry) == resolution(page, dl, retry).value

\* ----------------------------------------------------------- file analysis
\* A column of a parsed table: its name, as the words it is written with;
\* whether pandas reads it as numeric; the sum of its cells.
Column(name, numeric, total) ==
    [name |-> name, numeric |-> numeric, sum |-> total]

ColId == Column(<<"Id">>, TRUE, 3)

ColRevenue == Column(<<"Revenue">>, TRUE, 5)

ColValue == Column(<<"value">>, TRUE, 7)

ColName == Column(<<"Name">>, FALSE, 0)

Tables ==
    {<<>>, <<ColId, ColRevenue>>, <<ColRevenue, ColId>>,
     <<ColName, ColRevenue>>, <<ColId, ColValue>>, <<ColName>>}

\* A downloaded file.  ext: Path(file_path).suffix.lower().  parses: pandas
\* (tabular) or json.loads (.json) reads it.  columns: the columns of the
\* table.  text: the numeric tokens of its text.  leaves: the numeric leaves
\* of its JSON value.
NoFile == [ext |-> "", parses |-> FALSE, columns |-> <<>>,
           text |-> Tokens(<<>>, <<>>), leaves |-> <<>>]

TabularExts == {".csv", ".xlsx", ".xls"}

FileTexts == {Tokens(<<>>, <<>>), Tokens(<<4>>, <<4, 2>>)}

Files ==
    {[NoFile EXCEPT !.ext = e, !.parses = TRUE, !.columns = c] :
        e \in TabularExts, c \in Tables}
    \cup {[NoFile EXCEPT !.ext = e] : e \in TabularExts \cup {".bin"}}
    \cup {[NoFile EXCEPT !.ext = e, !.text = t] :
            e \in {".pdf", ".txt"}, t \in FileTexts}
    \cup {[NoFile EXCEPT !.ext = ".json", !.parses = TRUE,
                         !.leaves = <<1, 2>>,
                         !.text = Tokens(<<>>, <<1, 2>>)],
          [NoFile EXCEPT !.ext = ".json", !.parses = TRUE],
          [NoFile EXCEPT !.ext = ".json", !.text = Tokens(<<>>, <<4, 2>>)]}

\* The question text.  empty: it is the empty string.  sum_of: it holds the
\* phrase "sum of".  the: "the" follows the phrase.  quoted: the name is
\* written in quotes.  words: the words of the name.  trailing: the words
\* that follow the name up to the next character that is no letter, digit,
\* underscore, hyphen or white space.
NoQuestion == [empty |-> TRUE, sum_of |-> FALSE, the |-> FALSE,
               quoted |-> FALSE, words |-> <<>>, trailing |-> <<>>]

SumOf(the, quoted, words, trailing) ==
    [empty |-> FALSE, sum_of |-> TRUE, the |-> the, quoted |-> quoted,
     words |-> words, trailing |-> trailing]

Questions ==
    {NoQuestion,
     [NoQuestion EXCEPT !.empty = FALSE],
     SumOf(FALSE, FALSE, <<"Revenue">>, <<>>),
     SumOf(TRUE, FALSE, <<"Revenue">>, <<"column">>),
     SumOf(TRUE, TRUE, <<"Revenue">>, <<"column">>),
     SumOf(TRUE, FALSE, <<"revenue">>, <<>>),
     SumOf(TRUE, FALSE, <<"Cost">>, <<"values">>),
     SumOf(FALSE, FALSE, <<"Name">>, <<>>)}

\* utils.py:285-288: sum_match.group(1).strip().  The group is the longest
\* run of letters, digits, underscores, hyphens and white space after the
\* optional "the" and the optional opening quote: the name up to its closing
\* quote when it is quoted, else the name with the words that follow it
column_name(q) == IF q.quoted THEN q.words ELSE q.words \o q.trailing

\* the first column pandas reads as numeric, 0 when there is none
first_numeric(columns) ==
    IF \E i \in 1..Len(columns) : columns[i].numeric
    THEN CHOOSE i \in 1..Len(columns) :
             /\ columns[i].numeric
             /\ \A j \in 1..Len(columns) : columns[j].numeric => i <= j
    ELSE 0

\* utils.py:146-182: the sum of the column named column_hint, by exact
\* comparison of the names; when there is none, or its sum is no number,
\* the sum of the first numeric column; None when the file does not parse
\* or has no numeric column
parse_csv_and_sum(file, column_hint) ==
    IF ~file.parses THEN None
    ELSE IF \E i \in 1..Len(file.columns) :
                file.columns[i].name = column_hint /\ file.columns[i].numeric
    THEN Num(file.columns[CHOOSE i \in 1..Len(file.columns) :
                 file.columns[i].name = column_hint].sum)
    ELSE IF first_numeric(file.columns) # 0
    THEN Num(file.columns[first_numeric(file.columns)].sum)
    ELSE None

\* utils.py:295-324: the analysis by file type
default_analysis(file, q) ==
    IF file.ext \in TabularExts THEN parse_csv_and_sum(file, <<"value">>)
    ELSE IF file.ext = ".pdf"
    THEN sum_values_in_text(file.text, IF q.empty THEN "" ELSE "value")
    ELSE IF file.ext = ".txt" THEN sum_values_in_text(file.text, "")
    ELSE IF file.ext = ".json"
    THEN IF file.parses /\ file.leaves # <<>>
         THEN Num(SumSeq(file.leaves))
         ELSE sum_values_in_text(file.text, "")
    ELSE None

\* utils.py:270-324
analyze_data_file(file, q) ==
    IF /\ ~q.empty
       /\ q.sum_of
       /\ file.ext \in TabularExts
       /\ parse_csv_and_sum(file, column_name(q)) # None
    THEN parse_csv_and_sum(file, column_name(q))
    ELSE default_analysis(file, q)

\* ------------------------------------------------------ submission outcomes
\* What _submit_answer returns.  isdict: the value is a JSON object (a Python
\* dict); correct: "true", "false" or "absent"; url: the `url` key or NoUrl;
\* error: the `error` key or "" when absent.
Outcome(isdict, correct, url, error) ==
    [isdict |-> isdict, correct |-> correct, url |-> url, error |-> error]

NoOutcome == Outcome(FALSE, "absent", NoUrl, "unset")

\* bodies a 200/201/202 response may parse to with response.json()
JsonBodies ==
    {Outcome(TRUE, "true", u, "") : u \in URLS \cup {NoUrl}}
    \cup {Outcome(TRUE, c, NoUrl, "") : c \in {"false", "absent"}}
    \cup {Outcome(FALSE, "absent", NoUrl, "")}

\* solver.py:308-311: success status, body is not JSON
RawOutcome == Outcome(TRUE, "absent", NoUrl, "")

\* solver.py:319-323
BadStatusOutcome == Outcome(TRUE, "absent", NoUrl, "Submission failed")

\* solver.py:330
NetworkOutcome == Outcome(TRUE, "absent", NoUrl, "network")

ExhaustedOutcome_MutNoError == Outcome(TRUE, "absent", NoUrl, "")

\* solver.py:332: the attempt loop ended without a return
ExhaustedOutcome == Outcome(TRUE, "absent", NoUrl, "Max retries exceeded")

\* what one POST may come back with
Responses ==
    {[kind |-> "json", body |-> b] : b \in JsonBodies}
    \cup {[kind |-> k, body |-> NoOutcome] : k \in {"raw", "status", "network"}}

\* ------------------------------------------------------------------- state
VARIABLES
    pc,                \* position of the coroutine
    now,               \* time.time() - self.start_time, in ticks
    current_url,       \* solver.py:53
    quiz_number,       \* solver.py:54
    results,           \* solver.py:45-51, the report
    page_data,         \* solver.py:62, the snapshot of the last fetch
    answer,            \* solver.py:65 / 110
    submission_result, \* solver.py:74 / 112
    attempt,           \* solver.py:297, loop index of _submit_answer (0
                       \* outside a call)
    posts,             \* history: 1 once a POST was made since the last
                       \* page fetch
    fetches,           \* history: fetches of the page of the current quiz
    retries,           \* history: retry resolutions of the current quiz
    wrong_seen,        \* history: wrong outcomes in a row of the current quiz
    stop_reason,       \* history: the statement that left the loop
    email,             \* solver.py:30, QuizSolver.email
    secret,            \* solver.py:31, QuizSolver.secret
    max_retries,       \* config.py:25, MAX_RETRIES as read from the
                       \* environment when the process starts
    waits,             \* history: the sleeps of the last _submit_answer call
    last_post,         \* history: the POST sent last by that call
    request,           \* main.py:74, the body of the POST /solve request
    response,          \* main.py, what the endpoint answered
    secret_checked,    \* history: main.py:94 was evaluated
    trace,             \* history: what the last direct call of
                       \* _compute_answer did
    analysis           \* a direct call of utils.analyze_data_file: its
                       \* arguments and what it returned

vars == <<pc, now, current_url, quiz_number, results, page_data, answer,
          submission_result, attempt, posts, fetches, retries,
          wrong_seen, stop_reason, email, secret, max_retries, waits,
          last_post, request, response, secret_checked, trace, analysis>>

hist == <<posts, fetches, retries, wrong_seen, stop_reason>>

\* the history of the calls of _submit_answer
wire == <<waits, last_post>>

\* what no step of a chain writes: the solver's fields, the configuration,
\* the endpoint's request and response, the resolver trace
rest == <<email, secret, max_retries, request, response, secret_checked,
          trace, analysis>>

\* the clock after an operation that took d ticks; every reading at or
\* beyond the budget compares alike, so the clock stops one past it
Elapse(d) == Min(now + d, QUIZ_TIMEOUT + 1)

\* history counters stop one past the value any claim compares them with
Count(n, cap) == Min(n + 1, cap)

TimeoutMessage == "Timeout reached (3 minutes)"

SuccessMessage == "All quizzes completed successfully"

ErrorEntry(q, msg) == [quiz |-> q, error |-> msg]

AppendError(r, q, msg) ==
    [r EXCEPT !.errors = Append(@, ErrorEntry(q, msg))]

\* who a chain may be run for: QuizSolver(email, secret)
Identities == {[email |-> <<"u", "@", "example.com">>, secret |-> SECRET]}

\* no POST sent yet by the current call of _submit_answer
NoPost == [to |-> NoUrl, url |-> NoUrl, email |-> NoEmail, secret |-> "",
           answer |-> None, reply |-> "none"]

\* no request received / no response sent by the /solve endpoint
NoRequest == [email |-> NoEmail, secret |-> "", url |-> NoUrl]

NoResponse == [status |-> 0, success |-> FALSE, message |-> "",
               result |-> None]

\* _compute_answer was not called directly
NoCall == [retry |-> FALSE, raised |-> FALSE, value |-> None,
           source |-> "none", downloads |-> 0, dl |-> <<>>, temp |-> {}]

\* of the call before the last only the flag and the result are kept
NoPrev == [retry |-> FALSE, raised |-> FALSE, value |-> None]

NoTrace == [calls |-> 0, last |-> NoCall, prev |-> NoPrev]

\* no call of analyze_data_file was made
NoAnalysis == [file |-> NoFile, question |-> NoQuestion, result |-> None,
               done |-> FALSE]

\* solver.py:44-54, before the browser is started
Init ==
    /\ pc = "start"
    /\ now = 0
    /\ current_url \in URLS \cup {NoUrl}
    /\ quiz_number = 1
    /\ results = [quizzes_solved |-> <<>>, total_quizzes |-> 0,
                  success |-> FALSE, final_message |-> "None",
                  errors |-> <<>>]
    /\ page_data = BlankPage
    /\ answer = None
    /\ submission_result = NoOutcome
    /\ attempt = 0
    /\ posts = 0
    /\ fetches = 0
    /\ retries = 0
    /\ wrong_seen = 0
    /\ stop_reason = "none"
    /\ \E id \in Identities : email = id.email /\ secret = id.secret
    /\ max_retries = MAX_RETRIES
    /\ waits = <<>>
    /\ last_post = NoPost
    /\ request = NoRequest
    /\ response = NoResponse
    /\ secret_checked = FALSE
    /\ trace = NoTrace
    /\ analysis = NoAnalysis

\* ----------------------------------------------------------------- actions
\* solver.py:56 with scraper.py:25-29: `async with QuizScraper()` starts the
\* browser outside the try block; a failed launch propagates to the caller
StartBrowser(ok, d) ==
    /\ pc = "start"
    /\ now' = Elapse(d)
    /\ pc' = IF ok THEN "loop" ELSE "raised"
    /\ stop_reason' = IF ok THEN stop_reason ELSE "browser_start"
    /\ UNCHANGED <<current_url, quiz_number, results, page_data, answer,
                   submission_result, attempt, posts, fetches,
                   retries, wrong_seen>>
    /\ UNCHANGED <<wire, rest>>

LoopCheck_NoBudget ==
    /\ pc = "loop"
    /\ IF current_url # NoUrl
       THEN /\ pc' = "scrape"
            /\ posts' = 0
            /\ UNCHANGED stop_reason
       ELSE /\ pc' = "close"
            /\ stop_reason' = "loop_condition"
            /\ UNCHANGED posts
    /\ UNCHANGED <<now, current_url, quiz_number, results, page_data, answer,
                   submission_result, attempt, fetches, retries,
                   wrong_seen>>
    /\ UNCHANGED <<wire, rest>>

\* solver.py:57-62: the while condition, then the call of scrape_quiz_page
LoopCheck ==
    /\ pc = "loop"
    /\ IF current_url # NoUrl /\ now < QUIZ_TIMEOUT
       THEN /\ pc' = "scrape"
            /\ posts' = 0
            /\ UNCHANGED stop_reason
       ELSE /\ pc' = "close"
            /\ stop_reason' = "loop_condition"
            /\ UNCHANGED posts
    /\ UNCHANGED <<now, current_url, quiz_number, results, page_data, answer,
                   submission_result, attempt, fetches, retries,
                   wrong_seen>>
    /\ UNCHANGED <<wire, rest>>

HandleException_Continue(r) ==
    /\ results' = AppendError(r, quiz_number, "Error solving quiz")
    /\ pc' = "loop"
    /\ stop_reason' = "exception"

\* solver.py:130-134: the except clause of the loop body
HandleException(r) ==
    /\ results' = AppendError(r, quiz_number, "Error solving quiz")
    /\ pc' = "close"
    /\ stop_reason' = "exception"

\* solver.py:62 with scraper.py:38-126: the page is rendered (at least one
\* tick, scraper.py:77) and its snapshot returned, or the failure re-raised
Scrape(page, ok, d) ==
    /\ pc = "scrape"
    /\ ok => d >= 1
    /\ now' = Elapse(d)
    /\ fetches' = Count(fetches, 2)
    /\ IF ok
       THEN /\ page_data' = page
            /\ pc' = "compute"
            /\ UNCHANGED <<results, stop_reason>>
       ELSE /\ HandleException(results)
            /\ UNCHANGED page_data
    /\ UNCHANGED <<current_url, quiz_number, answer, submission_result,
                   attempt, posts, retries, wrong_seen>>
    /\ UNCHANGED <<wire, rest>>

Compute_SubmitsNone(dl) ==
    /\ pc = "compute"
    /\ IF compute_raises(page_data)
       THEN /\ HandleException(results)
            /\ UNCHANGED <<answer, attempt>>
       ELSE /\ answer' = _compute_answer(page_data, dl, FALSE)
            /\ pc' = "submit"
            /\ attempt' = 0
            /\ UNCHANGED <<results, stop_reason>>
    /\ UNCHANGED <<now, current_url, quiz_number, page_data,
                   submission_result, posts, fetches, retries, wrong_seen>>
    /\ UNCHANGED <<wire, rest>>

\* solver.py:65-78: first-attempt resolution, then the call of _submit_answer
Compute(dl) ==
    /\ pc = "compute"
    /\ IF compute_raises(page_data)
       THEN /\ HandleException(results)
            /\ UNCHANGED <<answer, attempt>>
       ELSE /\ answer' = _compute_answer(page_data, dl, FALSE)
            /\ IF answer' = None
               THEN /\ results' = AppendError(results, quiz_number,
                                              "Could not compute answer")
                    /\ pc' = "close"
                    /\ stop_reason' = "no_answer"
                    /\ UNCHANGED attempt
               ELSE /\ pc' = "submit"
                    /\ attempt' = 0
                    /\ UNCHANGED <<results, stop_reason>>
    /\ UNCHANGED <<now, current_url, quiz_number, page_data,
                   submission_result, posts, fetches, retries, wrong_seen>>
    /\ UNCHANGED <<wire, rest>>

\* an outcome counts as a wrong answer when it is a JSON object without
\* correct = true and without an error
IsWrong(o) == o.isdict /\ o.correct # "true" /\ o.error = ""

\* solver.py:75 / 113: page_data.get("submission_url") or current_url
SubmissionUrl(page, url) ==
    IF page.submission_url # NoUrl THEN page.submission_url ELSE url

Payload_MutEndpointAsUrl(submission_url, original_url, a) ==
    [to |-> submission_url, url |-> submission_url, email |-> email,
     secret |-> secret, answer |-> a]

\* solver.py:288-300: the POST of one attempt, by its target and its body
Payload(submission_url, original_url, a) ==
    [to |-> submission_url, url |-> original_url, email |-> email,
     secret |-> secret, answer |-> a]

Backoff_MutConstant(k) == RETRY_DELAY

\* solver.py:314 / 327: the sleep after the failed attempt of index k
Backoff(k) == RETRY_DELAY * (k + 1)

\* solver.py:297-332: one pass of the attempt loop of _submit_answer, or
\* the return after the loop when it has no pass left
Post(resp, d) ==
    /\ pc \in {"submit", "resubmit"}
    /\ LET final == attempt >= max_retries - 1
           failed == resp.kind \in {"status", "network"}
           returned ==
               CASE attempt >= max_retries -> ExhaustedOutcome
                 [] resp.kind = "json"     -> resp.body
                 [] resp.kind = "raw"      -> RawOutcome
                 [] resp.kind = "status"   -> BadStatusOutcome
                 [] resp.kind = "network"  -> NetworkOutcome
       IN  /\ IF attempt >= max_retries
              THEN UNCHANGED <<now, posts, last_post>>
              ELSE /\ now' = Elapse(d)
                   /\ posts' = Count(posts, 1)
                   /\ last_post' = Payload(SubmissionUrl(page_data,
                                                        current_url),
                                           current_url, answer)
                                   @@ [reply |-> resp.kind]
           /\ IF attempt < max_retries /\ failed /\ ~final
              THEN /\ attempt' = attempt + 1
                   /\ waits' = Append(waits, Backoff(attempt))
                   /\ UNCHANGED <<pc, submission_result, wrong_seen>>
              ELSE /\ submission_result' = returned
                   /\ pc' = IF pc = "resubmit" THEN "resubmitted"
                                               ELSE "evaluate"
                   /\ wrong_seen' = IF IsWrong(returned)
                                    THEN Count(wrong_seen, MAX_RETRIES + 1)
                                    ELSE 0
                   /\ attempt' = 0
                   /\ UNCHANGED waits
    /\ UNCHANGED <<current_url, quiz_number, results, page_data, answer,
                   fetches, retries, stop_reason>>
    /\ UNCHANGED rest

\* solver.py:80-85; the key retry_count is absent from a new record, which
\* quiz_result.get("retry_count", 0) reads as 0
QuizResult(q, url, a, o) ==
    [quiz_number |-> q, url |-> url, answer |-> a, submission_result |-> o,
     retry_count |-> 0]

HasNext_AnyUrl(o, url) == o.url # NoUrl

\* solver.py:92-94: the outcome sends the chain on to another quiz
HasNext(o, url) == o.url # NoUrl /\ o.url # url

MarkSuccess_MessageOnly(r) == [r EXCEPT !.final_message = SuccessMessage]

\* solver.py:100-101
MarkSuccess(r) ==
    [r EXCEPT !.success = TRUE, !.final_message = SuccessMessage]

\* solver.py:80-128: record the quiz, then branch on the outcome
Evaluate ==
    /\ pc = "evaluate"
    /\ LET quiz_result == QuizResult(quiz_number, current_url, answer,
                                     submission_result)
           recorded == [results EXCEPT
                           !.quizzes_solved = Append(@, quiz_result),
                           !.total_quizzes = quiz_number]
       IN  IF submission_result.isdict
           THEN IF submission_result.correct = "true"
                THEN IF HasNext(submission_result, current_url)
                     THEN /\ current_url' = submission_result.url
                          /\ quiz_number' = quiz_number + 1
                          /\ results' = recorded
                          /\ pc' = "loop"
                          /\ fetches' = 0
                          /\ retries' = 0
                          /\ wrong_seen' = 0
                          /\ UNCHANGED stop_reason
                     ELSE /\ results' = MarkSuccess(recorded)
                          /\ pc' = "close"
                          /\ stop_reason' = "success"
                          /\ UNCHANGED <<current_url, quiz_number, fetches,
                                         retries, wrong_seen>>
                ELSE IF quiz_result.retry_count < max_retries
                     THEN /\ results' = recorded
                          /\ pc' = "sleep"
                          /\ UNCHANGED <<current_url, quiz_number, fetches,
                                         retries, wrong_seen, stop_reason>>
                     ELSE /\ results' = AppendError(recorded, quiz_number,
                                 "Max retries reached, wrong answer")
                          /\ pc' = "close"
                          /\ stop_reason' = "max_retries"
                          /\ UNCHANGED <<current_url, quiz_number, fetches,
                                         retries, wrong_seen>>
           ELSE /\ results' = recorded
                /\ pc' = "close"
                /\ stop_reason' = "bad_outcome"
                /\ UNCHANGED <<current_url, quiz_number, fetches, retries,
                               wrong_seen>>
    /\ waits' = <<>>
    /\ last_post' = NoPost
    /\ UNCHANGED <<now, page_data, answer, submission_result, attempt,
                   posts>>
    /\ UNCHANGED rest

\* the record appended last is the object quiz_result still names
ReplaceLast(r, rec) ==
    [r EXCEPT !.quizzes_solved =
        [i \in DOMAIN r.quizzes_solved |->
            IF i = Len(r.quizzes_solved) THEN rec ELSE r.quizzes_solved[i]]]

\* solver.py:108
SetRetryCount(rec) == [rec EXCEPT !.retry_count = @ + 1]

\* solver.py:107-116: sleep, count the retry, resolve again with retry=True
\* and, for a truthy answer, call _submit_answer; otherwise control falls off
\* the end of the loop body
RetryResolve(d, dl) ==
    /\ pc = "sleep"
    /\ now' = Elapse(d)
    /\ retries' = Count(retries, MAX_RETRIES + 1)
    /\ LET counted == ReplaceLast(results,
                          SetRetryCount(Last(results.quizzes_solved)))
       IN  IF compute_raises(page_data)
           THEN /\ HandleException(counted)
                /\ UNCHANGED <<answer, attempt>>
           ELSE /\ results' = counted
                /\ answer' = _compute_answer(page_data, dl, TRUE)
                /\ IF Truthy(answer')
                   THEN /\ pc' = "resubmit"
                        /\ attempt' = 0
                   ELSE /\ pc' = "loop"
                        /\ UNCHANGED attempt
                /\ UNCHANGED stop_reason
    /\ UNCHANGED <<current_url, quiz_number, page_data, submission_result,
                   posts, fetches, wrong_seen>>
    /\ UNCHANGED <<wire, rest>>

\* solver.py:117-119: store the resubmission in the record and `continue`
Resubmitted ==
    /\ pc = "resubmitted"
    /\ results' = ReplaceLast(results,
                      [Last(results.quizzes_solved) EXCEPT
                          !.answer = answer,
                          !.submission_result = submission_result])
    /\ pc' = "loop"
    /\ waits' = <<>>
    /\ last_post' = NoPost
    /\ UNCHANGED <<now, current_url, quiz_number, page_data, answer,
                   submission_result, attempt, hist>>
    /\ UNCHANGED rest

\* scraper.py:31-36: leaving `async with` closes the browser; a failure of
\* close() or stop() propagates to the caller
CloseBrowser(ok, d) ==
    /\ pc = "close"
    /\ now' = Elapse(d)
    /\ pc' = IF ok THEN "final" ELSE "raised"
    /\ UNCHANGED <<current_url, quiz_number, results, page_data, answer,
                   submission_result, attempt, hist>>
    /\ UNCHANGED <<wire, rest>>

\* solver.py:136-139
FinalCheck ==
    /\ pc = "final"
    /\ results' = IF now >= QUIZ_TIMEOUT
                  THEN [results EXCEPT !.final_message = TimeoutMessage]
                  ELSE results
    /\ pc' = "done"
    /\ UNCHANGED <<now, current_url, quiz_number, page_data, answer,
                   submission_result, attempt, hist>>
    /\ UNCHANGED <<wire, rest>>

Next ==
    \/ \E ok \in BOOLEAN, d \in 0..MaxStep : StartBrowser(ok, d)
    \/ LoopCheck
    \/ \E page \in Pages, ok \in BOOLEAN, d \in 0..MaxStep :
          Scrape(page, ok, d)
    \/ \E dl \in Downloads(page_data.files) : Compute(dl)
    \/ \E resp \in Responses, d \in 0..MaxStep : Post(resp, d)
    \/ Evaluate
    \/ \E d \in 0..MaxStep, dl \in Downloads(page_data.files) :
          RetryResolve(d, dl)
    \/ Resubmitted
    \/ \E ok \in BOOLEAN, d \in 0..MaxStep : CloseBrowser(ok, d)
    \/ FinalCheck

Spec == Init /\ [][Next]_vars

\* a page fetch that takes at least one tick of the clock
TimedScrape ==
    \E page \in Pages, ok \in BOOLEAN, d \in 1..MaxStep : Scrape(page, ok, d)

\* the chain where the coroutine is always resumed and where, of the loop
\* iterations of a run that has no end of them, ever again one takes time
SpecLive == Spec /\ WF_vars(Next) /\ SF_vars(TimedScrape)

\* ------------------------------------------------ the resolver, called alone
\* _compute_answer called directly, twice, on one snapshot
InitResolve ==
    /\ pc = "snapshot"
    /\ page_data \in Snapshots
    /\ now = 0
    /\ current_url = NoUrl
    /\ quiz_number = 1
    /\ results = [quizzes_solved |-> <<>>, total_quizzes |-> 0,
                  success |-> FALSE, final_message |-> "None",
                  errors |-> <<>>]
    /\ answer = None
    /\ submission_result = NoOutcome
    /\ attempt = 0
    /\ posts = 0
    /\ fetches = 0
    /\ retries = 0
    /\ wrong_seen = 0
    /\ stop_reason = "none"
    /\ \E id \in Identities : email = id.email /\ secret = id.secret
    /\ max_retries = MAX_RETRIES
    /\ waits = <<>>
    /\ last_post = NoPost
    /\ request = NoRequest
    /\ response = NoResponse
    /\ secret_checked = FALSE
    /\ trace = NoTrace
    /\ analysis = NoAnalysis

\* solver.py:141-269: one call _compute_answer(page_data, retry) whose
\* downloads come to dl
Resolve(retry, dl) ==
    /\ pc \in {"snapshot", "resolved", "resolve_raised"}
    /\ trace.calls < 2
    /\ LET r == resolution(page_data, dl, retry)
       IN  /\ answer' = r.value
           /\ pc' = IF r.raised THEN "resolve_raised" ELSE "resolved"
           /\ trace' = [calls |-> trace.calls + 1,
                        last  |-> [retry |-> retry, raised |-> r.raised,
                                   value |-> r.value, source |-> r.source,
                                   downloads |-> r.downloads, dl |-> dl,
                                   temp |-> temp_files_left(dl,
                                                            r.downloads)],
                        prev  |-> [retry |-> trace.last.retry,
                                   raised |-> trace.last.raised,
                                   value |-> trace.last.value]]
    /\ UNCHANGED <<now, current_url, quiz_number, results, page_data,
                   submission_result, attempt, hist, wire, email, secret,
                   max_retries, request, response, secret_checked,
                   analysis>>

NextResolve ==
    \E retry \in BOOLEAN, dl \in Downloads(page_data.files) :
        Resolve(retry, dl)

SpecResolve == InitResolve /\ [][NextResolve]_vars

\* -------------------------------------------------------------- properties
quizzes_solved == results.quizzes_solved

errors == results.errors

Stopped == pc \in {"close", "final", "done", "raised"}

\* the quiz whose record is the last one was left by an advance
JustAdvanced ==
    /\ quizzes_solved # <<>>
    /\ quiz_number = Last(quizzes_solved).quiz_number + 1

\* C1: for one quiz, at most MAX_RETRIES retry resolutions are made, and once
\* more than MAX_RETRIES wrong outcomes in a row have been handled the chain
\* has ended with the error entry 'Max retries reached, wrong answer'.
C1_RetriesBounded ==
    /\ retries <= MAX_RETRIES
    /\ (wrong_seen > MAX_RETRIES
        /\ pc \notin {"submit", "resubmit", "evaluate", "resubmitted"})
          => /\ Stopped
             /\ \E i \in DOMAIN errors :
                   errors[i] = ErrorEntry(quiz_number,
                                   "Max retries reached, wrong answer")

\* C2: the page of a quiz is fetched at most once before the chain advances
\* to another URL or ends.
C2_NoRefetch == fetches <= 1

\* C3: the outcome of a retry resubmission is evaluated: when it is correct
\* with a distinct next URL, the page fetched next is that URL under quiz
\* index + 1; when it is correct without one, the chain ends with success.
C3_RetryOutcomeEvaluated ==
    LET rec == Last(quizzes_solved)
        out == rec.submission_result
    IN  (quizzes_solved # <<>> /\ rec.retry_count > 0
         /\ out.isdict /\ out.correct = "true")
        => /\ (out.url # NoUrl /\ out.url # rec.url /\ pc = "scrape")
                 => (current_url = out.url
                     /\ quiz_number = rec.quiz_number + 1)
           /\ (~(out.url # NoUrl /\ out.url # rec.url) /\ pc = "done")
                 => results.success

\* C4: no page fetch starts once the elapsed time has reached QUIZ_TIMEOUT;
\* the loop condition then leaves the loop with the report untouched, and the
\* chain returns the timeout message with every record still in place.
C4_BudgetBeforeFetch ==
    [][ /\ (pc # "scrape" /\ pc' = "scrape") => now < QUIZ_TIMEOUT
        /\ (pc = "loop" /\ now >= QUIZ_TIMEOUT)
              => (pc' = "close" /\ results' = results)
        /\ (Stopped /\ stop_reason = "loop_condition" /\ now >= QUIZ_TIMEOUT)
              => /\ results'.quizzes_solved = quizzes_solved
                 /\ pc' = "done" => results'.final_message = TimeoutMessage
      ]_vars

C4_Witness ==
    /\ pc = "done"
    /\ stop_reason = "loop_condition"
    /\ now >= QUIZ_TIMEOUT
    /\ quizzes_solved # <<>>
    /\ results.final_message = TimeoutMessage

\* C5: solve_quiz_chain never raises.
C5_NeverRaises == pc # "raised"

\* C6: an error outcome of _submit_answer does not enter the wrong-answer
\* retry, and a chain ended by an error outcome or by a response that is no
\* JSON object has an entry with the quiz index in errors.
C6_SubmissionErrorFatal ==
    /\ pc = "sleep" => submission_result.error = ""
    /\ stop_reason = "bad_outcome"
          => \E i \in DOMAIN errors : errors[i].quiz = quiz_number

\* the outcome under evaluation is correct and names another quiz URL
AdvanceCase ==
    /\ pc = "evaluate"
    /\ submission_result.isdict
    /\ submission_result.correct = "true"
    /\ submission_result.url # NoUrl
    /\ submission_result.url # current_url

\* C7 (as stated): after the advance step the next action is a fetch of the
\* new URL.
C7_NextActionIsFetch ==
    [][(pc = "loop" /\ JustAdvanced) => pc' = "scrape"]_vars

\* C7 (amended): quiz_number starts at 1, never decreases and changes only in
\* the advance step, which sets current_url to the distinct next URL, adds
\* exactly 1 to quiz_number and starts the new quiz without retries; the next
\* action is the budget check, which starts the fetch of the new URL when the
\* budget has not elapsed and otherwise ends the chain without a fetch.
C7_Advance ==
    /\ quiz_number = 1
    /\ [][ /\ quiz_number' >= quiz_number
           /\ (quiz_number' # quiz_number \/ current_url' # current_url)
                 => AdvanceCase
           /\ AdvanceCase
                 => /\ quiz_number' = quiz_number + 1
                    /\ current_url' = submission_result.url
                    /\ retries' = 0
                    /\ pc' = "loop"
           /\ (pc = "loop" /\ JustAdvanced)
                 => /\ current_url' = current_url
                    /\ pc' = IF now < QUIZ_TIMEOUT THEN "scrape" ELSE "close"
           /\ Len(results'.quizzes_solved) > Len(quizzes_solved)
                 => Last(results'.quizzes_solved).retry_count = 0
         ]_vars

C7_Witness ==
    /\ pc = "scrape"
    /\ JustAdvanced
    /\ quiz_number = 2
    /\ current_url = Last(quizzes_solved).submission_result.url

\* C8: at return, success is true exactly when the loop was left because an
\* evaluated outcome was correct and carried no distinct next URL; it is
\* false for every other way of stopping.
C8_SuccessIff ==
    /\ results.success
          => /\ Stopped
             /\ quizzes_solved # <<>>
             /\ Last(quizzes_solved).submission_result.correct = "true"
             /\ Last(quizzes_solved).submission_result.url
                   \in {NoUrl, Last(quizzes_solved).url}
    /\ pc = "done" => (results.success <=> stop_reason = "success")

C8_Witness ==
    /\ pc = "done"
    /\ results.success
    /\ stop_reason = "success"
    /\ Len(quizzes_solved) = 2

\* C9: when the first-attempt resolution of a fetched page returns None,
\* nothing is submitted for that page, exactly one error entry with the quiz
\* index is appended, no further URL is fetched and quizzes_solved is left
\* as it was.
C9_EmptyAnswerStops ==
    [][ /\ (pc = "compute" /\ answer' = None /\ ~compute_raises(page_data))
              => /\ results'.errors = Append(errors,
                        ErrorEntry(quiz_number, "Could not compute answer"))
                 /\ results'.quizzes_solved = quizzes_solved
                 /\ posts = 0 /\ posts' = 0
                 /\ pc' = "close"
        /\ (Stopped /\ stop_reason = "no_answer")
              => /\ pc' \in {"final", "done", "raised"}
                 /\ results'.errors = errors
                 /\ results'.quizzes_solved = quizzes_solved
                 /\ UNCHANGED <<posts, fetches, current_url>>
      ]_vars

C9_Witness ==
    /\ pc = "done"
    /\ stop_reason = "no_answer"
    /\ posts = 0
    /\ Len(quizzes_solved) = 1
    /\ errors = <<ErrorEntry(2, "Could not compute answer")>>

\* C10: when the fetch of a quiz page fails, nothing is resolved or
\* submitted for that quiz, exactly one error entry with the quiz index and
\* the failure is appended, no further URL is fetched and quizzes_solved is
\* left as it was.
C10_FetchFailureStops ==
    [][ /\ (pc = "scrape" /\ pc' # "compute")
              => /\ results'.errors = Append(errors,
                        ErrorEntry(quiz_number, "Error solving quiz"))
                 /\ results'.quizzes_solved = quizzes_solved
                 /\ UNCHANGED <<answer, page_data, submission_result>>
                 /\ posts = 0 /\ posts' = 0
                 /\ pc' = "close"
        /\ (Stopped /\ stop_reason = "exception")
              => /\ pc' \in {"final", "done", "raised"}
                 /\ results'.errors = errors
                 /\ results'.quizzes_solved = quizzes_solved
                 /\ UNCHANGED <<answer, posts, fetches, current_url>>
      ]_vars

C10_Witness ==
    /\ pc = "done"
    /\ stop_reason = "exception"
    /\ posts = 0
    /\ page_data = PageJson
    /\ Len(quizzes_solved) = 1
    /\ errors = <<ErrorEntry(2, "Error solving quiz")>>

\* ------------------------------------------- _submit_answer, called alone
\* one call _submit_answer(submission_url, original_url, answer) under every
\* setting of MAX_RETRIES from 0 to the default
InitSubmit ==
    /\ pc = "submit"
    /\ max_retries \in 0..MAX_RETRIES
    /\ page_data \in {PageJson, PageZeroLabel}
    /\ current_url \in URLS
    /\ answer \in {Num(7), Text(<<"x">>)}
    /\ now = 0
    /\ quiz_number = 1
    /\ results = [quizzes_solved |-> <<>>, total_quizzes |-> 0,
                  success |-> FALSE, final_message |-> "None",
                  errors |-> <<>>]
    /\ submission_result = NoOutcome
    /\ attempt = 0
    /\ posts = 0
    /\ fetches = 0
    /\ retries = 0
    /\ wrong_seen = 0
    /\ stop_reason = "none"
    /\ \E id \in Identities : email = id.email /\ secret = id.secret
    /\ waits = <<>>
    /\ last_post = NoPost
    /\ request = NoRequest
    /\ response = NoResponse
    /\ secret_checked = FALSE
    /\ trace = NoTrace
    /\ analysis = NoAnalysis

NextSubmit == \E resp \in Responses, d \in 0..MaxStep : Post(resp, d)

SpecSubmit == InitSubmit /\ [][NextSubmit]_vars

\* ------------------------------------------------------ the /solve endpoint
\* request bodies: an email that is empty, has no '@', or has one; the
\* configured secret or another; a URL that is empty, has another scheme,
\* or is a quiz URL
Emails == {NoEmail, <<"u", "example.com">>, <<"u", "@", "example.com">>}

Secrets == {SECRET, "wrong-secret"}

RequestUrls == URLS \cup {NoUrl, <<"ftp://", "A">>}

Requests == [email : Emails, secret : Secrets, url : RequestUrls]

\* main.py:34-38
validate_email(v) == v # NoEmail /\ \E i \in 1..Len(v) : v[i] = "@"

validate_url_MutNonEmpty(v) == v # NoUrl

\* main.py:40-44
validate_url(v) == v # NoUrl /\ v[1] \in {"http://", "https://"}

\* solver.py:45-51
NewResults ==
    [quizzes_solved |-> <<>>, total_quizzes |-> 0, success |-> FALSE,
     final_message |-> "None", errors |-> <<>>]

\* main.py:47-52 with the status code; result is the report or None
Response(status, success, message, result) ==
    [status |-> status, success |-> success, message |-> message,
     result |-> result]

\* a request has arrived; no QuizSolver exists yet
InitMain ==
    /\ pc = "request"
    /\ request \in Requests
    /\ response = NoResponse
    /\ secret_checked = FALSE
    /\ email = NoEmail
    /\ secret = ""
    /\ max_retries = MAX_RETRIES
    /\ now = 0
    /\ current_url = NoUrl
    /\ quiz_number = 1
    /\ results = NewResults
    /\ page_data = BlankPage
    /\ answer = None
    /\ submission_result = NoOutcome
    /\ attempt = 0
    /\ posts = 0
    /\ fetches = 0
    /\ retries = 0
    /\ wrong_seen = 0
    /\ stop_reason = "none"
    /\ waits = <<>>
    /\ last_post = NoPost
    /\ trace = NoTrace
    /\ analysis = NoAnalysis

\* main.py:28-44, 74-75: the body is parsed into a SolveRequest before the
\* handler runs; a validator that raises makes the framework answer 422
ParseRequest ==
    /\ pc = "request"
    /\ IF validate_email(request.email) /\ validate_url(request.url)
       THEN /\ pc' = "handler"
            /\ UNCHANGED response
       ELSE /\ pc' = "responded"
            /\ response' = Response(422, FALSE, "validation error", None)
    /\ UNCHANGED <<now, current_url, quiz_number, results, page_data,
                   answer, submission_result, attempt, hist, wire, email,
                   secret, max_retries, request, secret_checked, trace,
                   analysis>>

solve_quiz_MutNoSecretCheck ==
    /\ pc = "handler"
    /\ secret_checked' = TRUE
    /\ IF request.url = NoUrl
       THEN /\ response' = Response(400, FALSE, "Missing or invalid URL",
                                 None)
            /\ pc' = "responded"
            /\ UNCHANGED <<email, secret, current_url>>
       ELSE /\ email' = request.email
            /\ secret' = request.secret
            /\ current_url' = request.url
            /\ pc' = "start"
            /\ UNCHANGED response
    /\ UNCHANGED <<now, quiz_number, results, page_data, answer,
                   submission_result, attempt, hist, wire, max_retries,
                   request, trace, analysis>>

\* main.py:92-116 with solver.py:29-54: the secret check, the URL check,
\* then QuizSolver(email, secret) and the call of solve_quiz_chain up to its
\* first await
solve_quiz ==
    /\ pc = "handler"
    /\ secret_checked' = TRUE
    /\ IF request.secret # SECRET
       THEN /\ response' = Response(403, FALSE, "Forbidden: invalid secret",
                                 None)
            /\ pc' = "responded"
            /\ UNCHANGED <<email, secret, current_url>>
       ELSE IF request.url = NoUrl
       THEN /\ response' = Response(400, FALSE, "Missing or invalid URL",
                                 None)
            /\ pc' = "responded"
            /\ UNCHANGED <<email, secret, current_url>>
       ELSE /\ email' = request.email
            /\ secret' = request.secret
            /\ current_url' = request.url
            /\ pc' = "start"
            /\ UNCHANGED response
    /\ UNCHANGED <<now, quiz_number, results, page_data, answer,
                   submission_result, attempt, hist, wire, max_retries,
                   request, trace, analysis>>

\* main.py:118-143: the response built from the report; an exception of the
\* chain, or of SolveResponse when the message is None, is answered with 500
solve_quiz_return ==
    /\ pc \in {"done", "raised"}
    /\ pc' = "responded"
    /\ response' =
          IF pc = "raised"
          THEN Response(500, FALSE, "Internal server error", None)
          ELSE IF results.success \/ results.total_quizzes > 0
          THEN IF results.final_message = "None"
               THEN Response(500, FALSE, "Internal server error", None)
               ELSE Response(200, TRUE, results.final_message, results)
          ELSE Response(200, FALSE, "Failed to solve quiz", results)
    /\ UNCHANGED <<now, current_url, quiz_number, results, page_data,
                   answer, submission_result, attempt, hist, wire, email,
                   secret, max_retries, request, secret_checked, trace,
                   analysis>>

NextMain ==
    \/ ParseRequest
    \/ solve_quiz
    \/ Next
    \/ solve_quiz_return

SpecMain == InitMain /\ [][NextMain]_vars

\* ------------------------------------------------- file analysis harness
\* analyze_data_file called directly on one file with one question
InitAnalyze ==
    /\ pc = "analyze"
    /\ \E file \in Files, q \in Questions :
           analysis = [NoAnalysis EXCEPT !.file = file, !.question = q]
    /\ page_data = BlankPage
    /\ now = 0
    /\ current_url = NoUrl
    /\ quiz_number = 1
    /\ results = [quizzes_solved |-> <<>>, total_quizzes |-> 0,
                  success |-> FALSE, final_message |-> "None",
                  errors |-> <<>>]
    /\ answer = None
    /\ submission_result = NoOutcome
    /\ attempt = 0
    /\ posts = 0
    /\ fetches = 0
    /\ retries = 0
    /\ wrong_seen = 0
    /\ stop_reason = "none"
    /\ \E id \in Identities : email = id.email /\ secret = id.secret
    /\ max_retries = MAX_RETRIES
    /\ waits = <<>>
    /\ last_post = NoPost
    /\ request = NoRequest
    /\ response = NoResponse
    /\ secret_checked = FALSE
    /\ trace = NoTrace

\* utils.py:270-324: the call analyze_data_file(file_path, question_hint)
Analyze ==
    /\ pc = "analyze"
    /\ pc' = "analyzed"
    /\ analysis' = [analysis EXCEPT
                       !.result = analyze_data_file(analysis.file,
                                                    analysis.question),
                       !.done = TRUE]
    /\ answer' = analysis'.result
    /\ UNCHANGED <<now, current_url, quiz_number, results, page_data,
                   submission_result, attempt, hist, wire, email, secret,
                   max_retries, request, response, secret_checked, trace>>

NextAnalyze == Analyze

SpecAnalyze == InitAnalyze /\ [][NextAnalyze]_vars


\* ------------------------------------------------- properties of the resolver
\* the last direct call of _compute_answer returned (it did not raise)
Returned == trace.calls > 0 /\ ~trace.last.raised

\* the first value of a sequence that is not None, None when there is none
RECURSIVE FirstNonEmpty(_)
FirstNonEmpty(vals) ==
    IF vals = <<>> THEN None
    ELSE IF vals[1] # None THEN vals[1]
    ELSE FirstNonEmpty(Tail(vals))

\* what each strategy yields for the last call, in the order of the cascade
Yields ==
    LET jd == page_data.json_data
        b64 == page_data.base64_data
        retry == trace.last.retry
        direct == IF jd.kind = "dict" /\ jd.has_answer THEN jd.answer
                  ELSE IF jd.kind = "dict" /\ jd.has_solution
                       THEN jd.solution
                  ELSE None
        decoded == IF b64.kind = "dict" /\ b64.has_answer THEN b64.answer
                   ELSE IF b64.present /\ b64.values # <<>>
                        THEN Num(SumSeq(b64.values))
                   ELSE IF b64.present /\ b64.numbers # <<>>
                        THEN Num(SumSeq(b64.numbers))
                   ELSE None
        file == analyze_files(trace.last.dl, 1).value
        sum == IF /\ ~retry
                  /\ page_data.numbers # <<>>
                  /\ SumSeq(page_data.numbers) # 0
               THEN Num(SumSeq(page_data.numbers))
               ELSE None
        labels == page_data.labels
        label == IF ~retry THEN None
                 ELSE IF labels.answer # None THEN Coerce(labels.answer)
                 ELSE IF labels.solution # None THEN Coerce(labels.solution)
                 ELSE IF labels.result # None THEN Coerce(labels.result)
                 ELSE None
    IN  <<direct, decoded, file, page_data.table, sum, label>>

\* C11: every call of _compute_answer returns the value of the first
\* strategy, in the order direct answer, decoded payload, files, inline
\* table, generic sum (first attempt), labelled answer (retry), that yields
\* a value other than None, and None only when none of them does.
C11_FirstNonEmptyStrategy ==
    trace.calls > 0 =>
        /\ ~trace.last.raised
        /\ answer = FirstNonEmpty(Yields)

\* C12: a first-attempt call on a snapshot whose json_data is an object with
\* the key 'answer' returns that key's value and downloads no file, whatever
\* else the snapshot holds; without 'answer' but with 'solution' it returns
\* the value of 'solution'.
C12_DirectAnswerFirst ==
    LET jd == page_data.json_data
    IN  (trace.calls > 0 /\ ~trace.last.retry /\ jd.kind = "dict") =>
            /\ jd.has_answer =>
                  /\ Returned
                  /\ answer = jd.answer
                  /\ trace.last.downloads = 0
            /\ (~jd.has_answer /\ jd.has_solution) =>
                  /\ Returned
                  /\ answer = jd.solution
                  /\ trace.last.downloads = 0

\* a first-attempt call returned the 'answer' of a snapshot that also holds
\* a 'solution', a decoded payload, file links, a table and numbers
C12_Witness ==
    /\ trace.calls > 0
    /\ ~trace.last.retry
    /\ page_data.json_data.kind = "dict"
    /\ page_data.json_data.has_answer
    /\ page_data.json_data.has_solution
    /\ page_data.base64_data.present
    /\ page_data.files # <<>>
    /\ page_data.table # None
    /\ page_data.numbers # <<>>
    /\ answer = Num(7)

\* the strategies ahead of the generic sum left the last call undecided
ReachedText == Returned /\ trace.last.source \in {"sum", "label", "none"}

\* C13: the generic numeric sum answers only a call with retry false, and
\* only with a sum of the text's numeric tokens other than 0: when the call
\* gets that far with retry false, it returns the sum if there is a token
\* and the sum is not 0, and None otherwise.
C13_GenericSumNonZero ==
    LET numbers == page_data.numbers
        nonzero == numbers # <<>> /\ SumSeq(numbers) # 0
    IN  /\ trace.last.source = "sum" =>
              /\ ~trace.last.retry
              /\ nonzero
              /\ answer = Num(SumSeq(numbers))
        /\ (ReachedText /\ ~trace.last.retry) =>
              IF nonzero THEN trace.last.source = "sum"
                         ELSE answer = None

\* a first-attempt call got as far as the text, whose tokens sum to 0
C13_Witness ==
    /\ ReachedText
    /\ ~trace.last.retry
    /\ page_data.numbers = <<2, -2>>
    /\ page_data.files # <<>>
    /\ answer = None

InCall == pc \in {"submit", "resubmit"}

Failures == {"status", "network"}

\* C14: a call of _submit_answer sends at most MAX_RETRIES POSTs; it goes on
\* to another attempt only after a network failure or a status other than
\* 200/201/202; the wait after the k-th failed attempt is RETRY_DELAY * k for
\* k < MAX_RETRIES and there is none after the last; the call returns at the
\* first success status.
C14_AttemptsAndBackoff ==
    /\ \A k \in 1..Len(waits) : waits[k] = RETRY_DELAY * k
    /\ InCall => Len(waits) = attempt
    /\ max_retries > 0 => Len(waits) + 1 <= max_retries
    /\ max_retries <= 0 => (waits = <<>> /\ last_post = NoPost)
    /\ (InCall /\ attempt > 0) => last_post.reply \in Failures
    /\ last_post.reply \in {"json", "raw"} => ~InCall
    /\ (~InCall /\ last_post.reply \in Failures) =>
           Len(waits) + 1 = max_retries

\* the call returned after MAX_RETRIES = 3 failed POSTs and two waits
C14_Witness ==
    /\ ~InCall
    /\ max_retries = MAX_RETRIES
    /\ last_post.reply \in Failures
    /\ waits = <<RETRY_DELAY, 2 * RETRY_DELAY>>

\* C15: when every attempt of a call failed, or MAX_RETRIES is 0, the
\* outcome returned has an 'error' entry and neither 'correct' nor 'url'.
C15_FailureOutcome ==
    (~InCall /\ (max_retries <= 0 \/ last_post.reply \in Failures)) =>
        /\ submission_result.isdict
        /\ submission_result.error # ""
        /\ submission_result.correct = "absent"
        /\ submission_result.url = NoUrl

\* the call returned without a POST because MAX_RETRIES is 0
C15_Witness ==
    /\ ~InCall
    /\ max_retries = 0
    /\ last_post = NoPost
    /\ submission_result.error = "Max retries exceeded"

\* C16: every POST of a chain has the URL of the quiz page as `url`, the
\* email and secret of the chain, and goes to the submission URL of the
\* snapshot or, without one, to the quiz URL; where the snapshot names a
\* submission URL other than the quiz URL, `url` is not that endpoint.
C16_PostPayload ==
    last_post # NoPost =>
        /\ last_post.url = current_url
        /\ last_post.email = email
        /\ last_post.secret = secret
        /\ last_post.to = IF page_data.submission_url # NoUrl
                          THEN page_data.submission_url
                          ELSE current_url
        /\ page_data.submission_url \notin {NoUrl, current_url} =>
               last_post.url # last_post.to

\* a wrong-answer resubmission went out after a transport retry
C16_Witness ==
    /\ pc = "resubmitted"
    /\ waits # <<>>
    /\ last_post.to = SubmitEndpoint
    /\ last_post.url = current_url
    /\ last_post.answer = Num(9)

\* ---------------------------------------------- properties of the endpoint
\* the request body passes the validators of SolveRequest
WellFormed ==
    /\ "@" \in {request.email[i] : i \in 1..Len(request.email)}
    /\ request.url # <<>>
    /\ request.url[1] \in {"http://", "https://"}

\* a QuizSolver was created and its chain entered
ChainStarted ==
    \/ pc \notin {"request", "handler", "responded"}
    \/ email # NoEmail
    \/ results # NewResults
    \/ fetches # 0

\* C19: a well-formed request whose secret is not SECRET is answered with
\* status 403 and no chain is started for it.
C19_WrongSecretForbidden ==
    (WellFormed /\ request.secret # SECRET) =>
        /\ ~ChainStarted
        /\ pc = "responded" => response.status = 403

\* a well-formed request with a wrong secret was answered
C19_Witness ==
    /\ WellFormed
    /\ request.secret = "wrong-secret"
    /\ pc = "responded"
    /\ response.status = 403
    /\ secret_checked

C21_ReportAnswered200 ==
    [][ /\ (pc = "done" /\ pc' = "responded") =>
              /\ response'.status = 200
              /\ response'.result = results
        /\ (response.status # 500 /\ response'.status = 500) =>
              pc = "raised" ]_vars

\* C29: the response says success = true only for a report whose success is
\* true.
C29_SuccessOnlyIfChainSuccess ==
    (pc = "responded" /\ response.status = 200 /\ response.success) =>
        results.success

\* C22: a returned report carries the timeout message only when the chain
\* left the loop at its while condition; a report with success = true
\* carries the success message, and a chain that stopped on a recorded error
\* does not carry the timeout message.
C22_TimeoutStatusDistinct ==
    pc = "done" =>
        /\ results.final_message = TimeoutMessage =>
               stop_reason = "loop_condition"
        /\ results.success => results.final_message = SuccessMessage
        /\ stop_reason \in {"no_answer", "max_retries", "exception"} =>
               results.final_message # TimeoutMessage

\* C28: quizzes_solved holds its records in strictly increasing order of
\* quiz_number, so at most one per quiz, and total_quizzes is the number of
\* records.
C28_OneRecordPerQuiz ==
    /\ \A i, j \in 1..Len(quizzes_solved) :
           i < j => quizzes_solved[i].quiz_number
                        < quizzes_solved[j].quiz_number
    /\ results.total_quizzes = Len(quizzes_solved)

\* C30: in the wrong-answer retry branch every retry answer other than None
\* is resubmitted.
C30_RetryAnswerResubmitted ==
    [][ (pc = "sleep" /\ pc' # "raised" /\ stop_reason' = stop_reason
         /\ answer' # None)
        => pc' = "resubmit" ]_vars

\* C27: when loop iterations take time, every run of solve_quiz_chain comes
\* to its end and returns its report.
C27_TerminatesWithReport == <>(pc = "done")

\* C24: a decoded payload without a direct answer contributes the sum of the
\* numbers keyed by "value" and of nothing else: without such a number the
\* payload strategy yields nothing.
C24_DecodedSumOnlyKeyedValues ==
    LET b64 == page_data.base64_data
    IN  (/\ trace.calls > 0
         /\ trace.last.source = "base64"
         /\ ~trace.last.raised
         /\ ~(b64.kind # "none" /\ b64.has_answer))
        => /\ b64.values # <<>>
           /\ trace.last.value = Num(SumSeq(b64.values))

\* the files of the last call that yield a value, by position
Yielding == {i \in 1..Len(trace.last.dl) :
                trace.last.dl[i].tag \notin {"fail", "none"}}

\* C25: when the JSON and payload strategies yield nothing, the call does not
\* raise; its result is that of the first file, in link order, that yields a
\* value, 0 included, and no later file is downloaded; when no file yields,
\* every file was tried and the later strategies decide the result.
C25_FirstYieldingFile ==
    (trace.calls > 0 /\ trace.last.source \notin {"json", "base64"}) =>
        /\ ~trace.last.raised
        /\ Yielding # {} =>
               LET first == CHOOSE i \in Yielding :
                                \A j \in Yielding : i <= j
               IN  /\ trace.last.source = "file"
                   /\ trace.last.value = trace.last.dl[first]
                   /\ trace.last.downloads = first
        /\ Yielding = {} =>
               /\ trace.last.downloads = Len(trace.last.dl)
               /\ trace.last.source # "file"
               /\ page_data.table # None =>
                      /\ trace.last.source = "table"
                      /\ trace.last.value = page_data.table

\* a call in which the first file failed and the second yielded 0 while the
\* page also holds a table
C25_Witness ==
    /\ trace.calls > 0
    /\ Len(trace.last.dl) = 2
    /\ trace.last.dl[1].tag = "fail"
    /\ trace.last.dl[2] = Num(0)
    /\ page_data.table # None
    /\ trace.last.source = "file"
    /\ trace.last.value = Num(0)
    /\ trace.last.downloads = 2

\* the label the heuristic reads: the first of answer, solution, result that
\* the text carries, or None
FirstLabel ==
    LET labels == page_data.labels
    IN  IF labels.answer # None THEN labels.answer
        ELSE IF labels.solution # None THEN labels.solution
        ELSE labels.result

\* one of strategies 1 to 4 has something to return for the last call
EarlierYields ==
    LET jd == page_data.json_data
        b64 == page_data.base64_data
    IN  \/ jd.kind # "none" /\ (jd.has_answer \/ jd.has_solution)
        \/ /\ b64.present
           /\ \/ b64.kind # "none" /\ b64.has_answer
              \/ b64.values # <<>>
              \/ b64.numbers # <<>>
        \/ Yielding # {}
        \/ page_data.table # None

\* C26: a call returns a labelled answer only with retry set and only when
\* strategies 1 to 4 have nothing to return; a retry call in that case
\* returns the value of the first of the labels answer, solution, result
\* that the text carries, as the number it writes when it is a run of
\* digits and as the matched text otherwise; a first call never does.
C26_LabelledAnswerOnRetry ==
    trace.calls > 0 =>
        /\ trace.last.source = "label" =>
               /\ trace.last.retry
               /\ ~EarlierYields
               /\ FirstLabel # None
        /\ (trace.last.retry /\ ~EarlierYields /\ FirstLabel # None) =>
               /\ trace.last.source = "label"
               /\ ~trace.last.raised
               /\ trace.last.value =
                      IF /\ FirstLabel.chars # <<>>
                         /\ \A i \in 1..Len(FirstLabel.chars) :
                                IsDigit(FirstLabel.chars[i])
                      THEN Num(Decimal(FirstLabel.chars))
                      ELSE Text(FirstLabel.chars)
        /\ (~trace.last.retry /\ ~EarlierYields) =>
               /\ trace.last.source \in {"sum", "none"}
               /\ trace.last.value.tag \in {"num", "none"}

\* a retry call that answered 19 from the label answer while the label
\* solution was matched too
C26_Witness ==
    /\ trace.calls > 0
    /\ trace.last.retry
    /\ trace.last.source = "label"
    /\ page_data.labels.answer = Match(<<"1", "9">>)
    /\ page_data.labels.solution # None
    /\ trace.last.value = Num(19)

\* str.lower() on the words the names are written with
Lower(w) ==
    CASE w = "Revenue" -> "revenue"
      [] w = "Id" -> "id"
      [] w = "Name" -> "name"
      [] w = "Cost" -> "cost"
      [] OTHER -> w

LowerName(name) == [i \in 1..Len(name) |-> Lower(name[i])]

\* the numeric columns of the analysed file whose name is the name the
\* question asks for, ignoring case
NamedColumns ==
    {i \in 1..Len(analysis.file.columns) :
        /\ analysis.file.columns[i].numeric
        /\ LowerName(analysis.file.columns[i].name)
              = LowerName(analysis.question.words)}

\* C23: for a tabular file that has a column named as the question's
\* "sum of <name>" asks, ignoring case, quotes and a trailing word, the
\* analysis returns the sum of that column.
C23_NamedColumnSummed ==
    (/\ analysis.done
     /\ analysis.file.ext \in TabularExts
     /\ analysis.question.sum_of
     /\ NamedColumns # {})
    => \E i \in NamedColumns :
           analysis.result = Num(analysis.file.columns[i].sum)

\* C31: when a call of _compute_answer has returned, none of the temporary
\* files it created for the file links is left, whatever the download and
\* the analysis of each file came to.
C31_TempFilesDeleted ==
    (trace.calls > 0 /\ ~trace.last.raised) => trace.last.temp = {}

====
